---- MODULE Spec2Model ----
(***************************************************************************)
(* Model of post_schedule.py: the link pipeline (extract_links,            *)
(* classify_links, the "Other Links" rendering of main), the paginator     *)
(* (split_into_messages and the part-label rewrite of main) and the        *)
(* message lifecycle of main (delete prior / post new / persist ids).      *)
(***************************************************************************)
EXTENDS Integers, Sequences, FiniteSets, TLC

VARIABLES
    \* ---- paginator (split_into_messages + part labels) ----
    pg_pc,        \* "in" -> "split" -> "done"
    pg_blocks,    \* argument blocks: sequence of strings
    pg_header,    \* argument header: a string
    pg_messages,  \* result of split_into_messages
    pg_final,     \* messages after the part-label rewrite of main
    \* ---- link pipeline (extract_links, classify_links, "Other Links") ----
    lk_pc,        \* "in" -> "extracted" -> "classified" -> "rendered"
    lk_desc,      \* the raw description: its anchors and bare URLs, in order
    lk_links,     \* result of extract_links
    lk_bucket,    \* result of classify_links
    lk_render,    \* outcome of the "Other Links" rendering of main
    \* ---- message lifecycle (main, one run after another) ----
    pc,           \* "idle", "delete", "fetch", "post", "done", "aborted"
    state_file,   \* STATE_FILE: whether it exists and its "message_ids"
    channel,      \* ids of the webhook's messages now present in the channel
    next_id,      \* the id Discord gives to the next message it creates
    old_ids,      \* main: old_ids
    di,           \* main: how many ids of old_ids the delete loop has done
    events,       \* main: the events of the feed that fall in the window
    messages,     \* main: the messages to post
    new_ids,      \* main: new_ids
    calls,        \* the webhook calls of this run, in order
    cause,        \* why this run aborted: "delete", "fetch", "render", "post"
    start_file,   \* state_file as it was when this run started
    runs,         \* number of runs started
    prev_aborted, \* some earlier run aborted
    any_aborted   \* some run, this one included, aborted

pgVars == <<pg_pc, pg_blocks, pg_header, pg_messages, pg_final>>
lkVars == <<lk_pc, lk_desc, lk_links, lk_bucket, lk_render>>

lfVars == <<pc, state_file, channel, next_id, old_ids, di, events, messages, new_ids,
            calls, cause, start_file, runs, prev_aborted, any_aborted>>

vars == <<pgVars, lkVars, lfVars>>

-----------------------------------------------------------------------------
(* Strings.  A Python str is kept run-length encoded: a sequence of runs   *)
(* <<c, n>> (n >= 1 copies of character c), adjacent runs having different *)
(* characters, so that two strings are equal iff their encodings are.      *)
(* Characters: "n" is a newline, "s" a space, every other one is visible.  *)

IsSpace(c) == c \in {"n", "s"}

Lit(c, n) == IF n = 0 THEN <<>> ELSE << <<c, n>> >>

Cat(s, t) ==
    IF s = <<>> THEN t
    ELSE IF t = <<>> THEN s
    ELSE IF s[Len(s)][1] = t[1][1]
         THEN SubSeq(s, 1, Len(s) - 1)
                \o << <<t[1][1], s[Len(s)][2] + t[1][2]>> >>
                \o Tail(t)
         ELSE s \o t

RECURSIVE StrLen(_)
StrLen(s) == IF s = <<>> THEN 0 ELSE s[1][2] + StrLen(Tail(s))

RECURSIVE RStrip(_)
RStrip(s) ==
    IF s = <<>> THEN <<>>
    ELSE IF IsSpace(s[Len(s)][1]) THEN RStrip(SubSeq(s, 1, Len(s) - 1))
    ELSE s

RECURSIVE LStrip(_)
LStrip(s) ==
    IF s = <<>> THEN <<>>
    ELSE IF IsSpace(s[1][1]) THEN LStrip(Tail(s))
    ELSE s

Strip(s) == LStrip(RStrip(s))

\* s with its first k characters removed (k <= StrLen(s))
RECURSIVE DropChars(_, _)
DropChars(s, k) ==
    IF k = 0 \/ s = <<>> THEN s
    ELSE IF s[1][2] <= k THEN DropChars(Tail(s), k - s[1][2])
    ELSE << <<s[1][1], s[1][2] - k>> >> \o Tail(s)

\* the first k characters of s (k <= StrLen(s))
RECURSIVE TakeChars(_, _)
TakeChars(s, k) ==
    IF k = 0 \/ s = <<>> THEN <<>>
    ELSE IF s[1][2] <= k THEN <<s[1]>> \o TakeChars(Tail(s), k - s[1][2])
    ELSE << <<s[1][1], k>> >>

StartsWith(s, p) == StrLen(p) <= StrLen(s) /\ TakeChars(s, StrLen(p)) = p

\* str.find: offset of the first occurrence of old in s, -1 when absent
Find(s, old) ==
    LET Offs == 0 .. (StrLen(s) - StrLen(old))
        At(o) == StartsWith(DropChars(s, o), old)
    IN  IF \E o \in Offs : At(o)
        THEN CHOOSE o \in Offs : At(o) /\ \A q \in 0 .. (o - 1) : ~At(q)
        ELSE -1

\* str.replace(old, new, 1)
Replace1(s, old, new) ==
    LET o == Find(s, old)
    IN  IF o < 0 THEN s
        ELSE Cat(Cat(TakeChars(s, o), new), DropChars(s, o + StrLen(old)))

NL1 == Lit("n", 1)
NL2 == Lit("n", 2)

-----------------------------------------------------------------------------
(* Paginator                                                               *)

SAFE_LIMIT == 1850

\* split_into_messages with the flush branch re-seeding the buffer with the
\* header alone, losing the block that did not fit.
SplitStepDropsBlock(st, b, hs) ==
    IF StrLen(st.current) + StrLen(b) + 1 > SAFE_LIMIT
    THEN [messages |-> Append(st.messages, RStrip(st.current)),
          current  |-> Cat(hs, NL2)]
    ELSE [messages |-> st.messages,
          current  |-> Cat(Cat(st.current, b), NL1)]

\* split_into_messages with the length of the block left out of the test.
SplitStepIgnoresBlockLen(st, b, hs) ==
    IF StrLen(st.current) + 1 > SAFE_LIMIT
    THEN [messages |-> Append(st.messages, RStrip(st.current)),
          current  |-> Cat(Cat(Cat(hs, NL2), b), NL1)]
    ELSE [messages |-> st.messages,
          current  |-> Cat(Cat(st.current, b), NL1)]

\* One iteration of the loop of split_into_messages over block b; st is
\* [messages, current], hs is header.strip().
SplitStep(st, b, hs) ==
    IF StrLen(st.current) + StrLen(b) + 1 > SAFE_LIMIT
    THEN [messages |-> Append(st.messages, RStrip(st.current)),
          current  |-> Cat(Cat(Cat(hs, NL2), b), NL1)]
    ELSE [messages |-> st.messages,
          current  |-> Cat(Cat(st.current, b), NL1)]

RECURSIVE SplitLoop(_, _, _, _)
SplitLoop(blocks, i, st, hs) ==
    IF i > Len(blocks) THEN st
    ELSE SplitLoop(blocks, i + 1, SplitStep(st, blocks[i], hs), hs)

split_into_messages(blocks, header) ==
    LET hs == Strip(header)
        st == SplitLoop(blocks, 1, [messages |-> <<>>, current |-> Cat(hs, NL2)], hs)
    IN  IF Strip(st.current) # <<>>
        THEN Append(st.messages, RStrip(st.current))
        ELSE st.messages

\* number of decimal digits of i, as str(i) of an f-string prints them
Digits(i) == IF i < 10 THEN 1 ELSE IF i < 100 THEN 2 ELSE 3

\* " *(Part {i}/{total})*"
PartLabel(i, total) ==
    Cat(Cat(Lit("s", 1), Lit("x", 6)),
        Cat(Lit("s", 1), Lit("x", Digits(i) + 1 + Digits(total) + 2)))

\* main: the part-label rewrite of the messages when there is more than one
LabelParts(msgs, header) ==
    IF Len(msgs) > 1
    THEN [i \in 1 .. Len(msgs) |->
            Replace1(msgs[i], header, Cat(header, PartLabel(i, Len(msgs))))]
    ELSE msgs

\* header of main: "ðŸ“… **Next Week (Monâ€“Fri): Nov 09â€“Nov 13**"
MainHeader ==
    << <<"x", 4>>, <<"s", 1>>, <<"x", 6>>, <<"s", 1>>, <<"x", 4>>, <<"s", 1>>,
       <<"x", 12>>, <<"s", 1>>, <<"x", 3>>, <<"s", 1>>, <<"x", 8>>, <<"s", 1>>,
       <<"x", 4>> >>

-----------------------------------------------------------------------------
(* URLs and labels.  A url string is kept as the parts urlparse and        *)
(* normalize_url look at: scheme (lower case, as urlparse returns it), the *)
(* netloc as (a "www." prefix, the lower-case name of the rest, whether    *)
(* the netloc is written in upper case), the path, and the trailing        *)
(* punctuation normalize_url trims.  Two urls are the same string iff the  *)
(* records are equal.                                                      *)

Url(scheme, www, base, upper, path, trail) ==
    [scheme |-> scheme, www |-> www, base |-> base, upper |-> upper,
     path |-> path, trail |-> trail]

\* the empty string, as a url
EmptyUrl == Url("", FALSE, "", FALSE, "", "")

\* urlparse(url).netloc
Netloc(url) == [www |-> url.www, base |-> url.base, upper |-> url.upper]

NoHost == [www |-> FALSE, base |-> "", upper |-> FALSE]

\* host.lower()
Lower(h) == [h EXCEPT !.upper = FALSE]

\* host.replace("www.", ""): an upper-case "WWW." is not replaced
ReplaceWww(h) == IF h.www /\ ~h.upper THEN [h EXCEPT !.www = FALSE] ELSE h

\* A label is a text, a host name (short_domain) or the text of a url.
TextLabel(t) == [kind |-> "text", text |-> t, host |-> NoHost, url |-> EmptyUrl]
HostLabel(h) == [kind |-> "host", text |-> "", host |-> h, url |-> EmptyUrl]
UrlLabel(u)  == [kind |-> "url", text |-> "", host |-> NoHost, url |-> u]

\* truthiness of a label string
LabelEmpty(label) ==
    \/ label.kind = "text" /\ label.text = ""
    \/ label.kind = "url" /\ label.url = EmptyUrl

BLOCKED_LINK_DOMAINS == {"tel.meet", "support.google.com"}
BLOCKED_SCHEMES == {"tel"}

short_domain(url) ==
    LET host == Netloc(url)
    IN  IF ReplaceWww(host).base = "" THEN TextLabel("link")
        ELSE HostLabel(ReplaceWww(host))

\* (url or "").strip().rstrip(").,;\"'")
normalize_url(url) ==
    IF url.scheme = "" /\ url.base = "" /\ url.path = "" THEN EmptyUrl
    ELSE [url EXCEPT !.trail = ""]

is_blocked_url(url) ==
    LET scheme == url.scheme
        host == ReplaceWww(Lower(Netloc(url)))
    IN  \/ scheme \in BLOCKED_SCHEMES
        \/ ~host.www /\ host.base \in BLOCKED_LINK_DOMAINS

Link(label, url) == [label |-> label, url |-> url]

\* label = re.sub(tags, "", label); label = " ".join(label.split()).strip():
\* a raw anchor text is its visible text and whether markup or blanks
\* surround it
CleanLabel(raw) == raw.label

\* the loop of extract_links over the anchors (lines 71-79)
RECURSIVE AnchorLinks(_)
AnchorLinks(items) ==
    IF items = <<>> THEN <<>>
    ELSE LET it == Head(items)
             url == normalize_url(it.url)
             label == CleanLabel(it)
         IN  IF it.kind # "a" THEN AnchorLinks(Tail(items))
             ELSE IF url = EmptyUrl \/ is_blocked_url(url)
                  THEN AnchorLinks(Tail(items))
             ELSE << Link(IF LabelEmpty(label) THEN short_domain(url) ELSE label,
                          url) >> \o AnchorLinks(Tail(items))

\* the loop of extract_links over the naked URLs (lines 84-89)
RECURSIVE BareLinks(_)
BareLinks(items) ==
    IF items = <<>> THEN <<>>
    ELSE LET it == Head(items)
             url == normalize_url(it.url)
         IN  IF it.kind # "bare" THEN BareLinks(Tail(items))
             ELSE IF url = EmptyUrl \/ is_blocked_url(url)
                  THEN BareLinks(Tail(items))
             ELSE << Link(short_domain(url), url) >> \o BareLinks(Tail(items))

\* the naked-URL loop without the denylist test
RECURSIVE BareLinksUnfiltered(_)
BareLinksUnfiltered(items) ==
    IF items = <<>> THEN <<>>
    ELSE LET it == Head(items)
             url == normalize_url(it.url)
         IN  IF it.kind # "bare" THEN BareLinksUnfiltered(Tail(items))
             ELSE IF url = EmptyUrl THEN BareLinksUnfiltered(Tail(items))
             ELSE << Link(short_domain(url), url) >>
                    \o BareLinksUnfiltered(Tail(items))

\* De-dupe by URL, preserve order (lines 92-97)
RECURSIVE Dedupe(_, _)
Dedupe(links, seen) ==
    IF links = <<>> THEN <<>>
    ELSE IF Head(links).url \notin seen
         THEN <<Head(links)>> \o Dedupe(Tail(links), seen \cup {Head(links).url})
         ELSE Dedupe(Tail(links), seen)

\* extract_links that filters the anchors only and does not de-dupe
extract_links_sloppy(text) == AnchorLinks(text) \o BareLinksUnfiltered(text)

extract_links(text) == Dedupe(AnchorLinks(text) \o BareLinks(text), {})

-----------------------------------------------------------------------------
(* classify_links.  None is the empty sequence, a (label, url) pair a      *)
(* one-element sequence.                                                   *)

IsCanvasHost(host) == host.base = "canvas.usuhs.edu"
IsMeetHost(host)   == host.base = "meet.google.com"
IsDocsHost(host)   == host.base = "docs.google.com"

\* "WSIB" in label_norm.upper()
WsibTexts == {"WSIB Doc", "wsib notes"}
MentionsWSIB(label) == label.kind = "text" /\ label.text \in WsibTexts

LabelOr(label, dflt) == IF LabelEmpty(label) THEN dflt ELSE label

EmptyBucket == [wsib |-> <<>>, canvas |-> <<>>, meet |-> <<>>, other |-> <<>>]

\* classify_links with the role branches falling through to the fallback
\* append (the `continue` of a filled role missing)
ClassifyStepFallsThrough(bk, link) ==
    LET url == link.url
        host == ReplaceWww(Lower(Netloc(url)))
        label_norm == link.label
        toOther == Link(LabelOr(label_norm, short_domain(url)), url)
    IN  IF IsCanvasHost(host)
        THEN IF bk.canvas = <<>>
             THEN [bk EXCEPT !.canvas = <<Link(LabelOr(label_norm, TextLabel("Canvas")), url)>>,
                             !.other = Append(@, toOther)]
             ELSE [bk EXCEPT !.other = Append(@, toOther)]
        ELSE IF IsMeetHost(host)
        THEN IF bk.meet = <<>>
             THEN [bk EXCEPT !.meet = <<Link(LabelOr(label_norm, TextLabel("Meet")), url)>>,
                             !.other = Append(@, toOther)]
             ELSE [bk EXCEPT !.other = Append(@, toOther)]
        ELSE IF MentionsWSIB(label_norm) /\ IsDocsHost(host)
        THEN IF bk.wsib = <<>>
             THEN [bk EXCEPT !.wsib = <<Link(LabelOr(label_norm, TextLabel("WSIB")), url)>>,
                             !.other = Append(@, toOther)]
             ELSE [bk EXCEPT !.other = Append(@, toOther)]
        ELSE [bk EXCEPT !.other = Append(@, toOther)]

\* one iteration of the loop of classify_links (lines 215-244)
ClassifyStep(bk, link) ==
    LET url == link.url
        host == ReplaceWww(Lower(Netloc(url)))
        label_norm == link.label
        toOther == Link(LabelOr(label_norm, short_domain(url)), url)
    IN  IF IsCanvasHost(host)
        THEN IF bk.canvas = <<>>
             THEN [bk EXCEPT !.canvas = <<Link(LabelOr(label_norm, TextLabel("Canvas")), url)>>]
             ELSE [bk EXCEPT !.other = Append(@, toOther)]
        ELSE IF IsMeetHost(host)
        THEN IF bk.meet = <<>>
             THEN [bk EXCEPT !.meet = <<Link(LabelOr(label_norm, TextLabel("Meet")), url)>>]
             ELSE [bk EXCEPT !.other = Append(@, toOther)]
        ELSE IF MentionsWSIB(label_norm) /\ IsDocsHost(host)
        THEN IF bk.wsib = <<>>
             THEN [bk EXCEPT !.wsib = <<Link(LabelOr(label_norm, TextLabel("WSIB")), url)>>]
             ELSE [bk EXCEPT !.other = Append(@, toOther)]
        ELSE [bk EXCEPT !.other = Append(@, toOther)]

RECURSIVE ClassifyLoop(_, _)
ClassifyLoop(links, bk) ==
    IF links = <<>> THEN bk
    ELSE ClassifyLoop(Tail(links), ClassifyStep(bk, Head(links)))

classify_links(links) == ClassifyLoop(links, EmptyBucket)

-----------------------------------------------------------------------------
(* main, lines 395-404: the "Other Links" section of one event.            *)

\* f"- {label}: {url}" if label else f"- {url}"
OtherLine(label, url) ==
    IF ~LabelEmpty(label)
    THEN [form |-> "label: url", label |-> label, url |-> url]
    ELSE [form |-> "url", label |-> label, url |-> url]

RECURSIVE OtherLines(_, _)
OtherLines(other, primary_urls) ==
    IF other = <<>> THEN <<>>
    ELSE IF Head(other).url \in primary_urls
         THEN OtherLines(Tail(other), primary_urls)
         ELSE <<OtherLine(Head(other).label, Head(other).url)>>
                 \o OtherLines(Tail(other), primary_urls)

\* `for _, u in [wsib, canvas, meet] if _ is not None` unpacks each element
\* before the test: a None among the three raises TypeError.
RenderOther(bk) ==
    IF bk.other = <<>> THEN [raised |-> FALSE, lines |-> <<>>]
    ELSE IF bk.wsib = <<>> \/ bk.canvas = <<>> \/ bk.meet = <<>>
         THEN [raised |-> TRUE, lines |-> <<>>]
    ELSE LET primary_urls == {bk.wsib[1].url, bk.canvas[1].url, bk.meet[1].url}
         IN  [raised |-> FALSE, lines |-> OtherLines(bk.other, primary_urls)]

-----------------------------------------------------------------------------
\* the variables of a part of the program a specification leaves out
PgIdle ==
    /\ pg_pc = "off"
    /\ pg_blocks = <<>>
    /\ pg_header = <<>>
    /\ pg_messages = <<>>
    /\ pg_final = <<>>

LkIdle ==
    /\ lk_pc = "off"
    /\ lk_desc = <<>>
    /\ lk_links = <<>>
    /\ lk_bucket = EmptyBucket
    /\ lk_render = [raised |-> FALSE, lines |-> <<>>]

NoFile == [exists |-> FALSE, message_ids |-> <<>>]

LfIdle ==
    /\ pc = "off"
    /\ state_file = NoFile
    /\ channel = {}
    /\ next_id = 1
    /\ old_ids = <<>>
    /\ di = 0
    /\ events = <<>>
    /\ messages = <<>>
    /\ new_ids = <<>>
    /\ calls = <<>>
    /\ cause = ""
    /\ start_file = NoFile
    /\ runs = 0
    /\ prev_aborted = FALSE
    /\ any_aborted = FALSE

SeqsUpTo(S, n) == UNION { [1 .. k -> S] : k \in 0 .. n }

(* Inputs of the link pipeline: the anchors and naked URLs of a raw        *)
(* description, in the order they stand in the text.                       *)

Anchor(url, label) == [kind |-> "a", url |-> url, label |-> label]
Bare(url) == [kind |-> "bare", url |-> url, label |-> TextLabel("")]

UCanvas1 == Url("https", FALSE, "canvas.usuhs.edu", FALSE, "/c1", "")
UCanvas2 == Url("https", FALSE, "canvas.usuhs.edu", FALSE, "/c2", "")
UMeet    == Url("https", FALSE, "meet.google.com", FALSE, "/abc", "")
UDocs    == Url("https", FALSE, "docs.google.com", FALSE, "/d1", "")
USite    == Url("https", TRUE, "example.com", FALSE, "/p", "")
USiteDot == Url("https", TRUE, "example.com", FALSE, "/p", ".")
UHelp    == Url("https", TRUE, "support.google.com", TRUE, "/h", "")
UTel     == Url("tel", FALSE, "", FALSE, "+15550100", "")
UPunct   == Url("", FALSE, "", FALSE, "", ")")

ItemPool ==
    { Anchor(UDocs, TextLabel("WSIB Doc")),
      Anchor(UDocs, TextLabel("Notes")),
      Anchor(UMeet, TextLabel("Join")),
      Anchor(UCanvas1, TextLabel("")),
      Anchor(USite, UrlLabel(USite)),
      Anchor(UTel, TextLabel("Call")),
      Anchor(UPunct, TextLabel("x")),
      Bare(UCanvas2),
      Bare(UMeet),
      Bare(USiteDot),
      Bare(UHelp) }

MaxItems == 4

LkInit ==
    /\ lk_pc = "in"
    /\ lk_desc \in SeqsUpTo(ItemPool, MaxItems)
    /\ lk_links = <<>>
    /\ lk_bucket = EmptyBucket
    /\ lk_render = [raised |-> FALSE, lines |-> <<>>]
    /\ PgIdle
    /\ LfIdle

LkExtract ==
    /\ lk_pc = "in"
    /\ lk_links' = extract_links(lk_desc)
    /\ lk_pc' = "extracted"
    /\ UNCHANGED <<lk_desc, lk_bucket, lk_render, pgVars, lfVars>>

LkClassify ==
    /\ lk_pc = "extracted"
    /\ lk_bucket' = classify_links(lk_links)
    /\ lk_pc' = "classified"
    /\ UNCHANGED <<lk_desc, lk_links, lk_render, pgVars, lfVars>>

LkRender ==
    /\ lk_pc = "classified"
    /\ lk_render' = RenderOther(lk_bucket)
    /\ lk_pc' = "rendered"
    /\ UNCHANGED <<lk_desc, lk_links, lk_bucket, pgVars, lfVars>>

LkNext == LkExtract \/ LkClassify \/ LkRender

SpecLinks == LkInit /\ [][LkNext]_vars

-----------------------------------------------------------------------------
(* main, lines 344-415: the blocks of the events and the messages.  An     *)
(* event is the dict of lines 328-335: time (its day is time \div 10),     *)
(* title, location, the snippet of lines 360-365 and the links of its raw  *)
(* description.  Visible text is written with the character "x".           *)

Sp == Lit("s", 1)

\* characters of a url: scheme, "://", netloc, path, trailing punctuation
UrlStr(u) ==
    Lit("x", Len(u.scheme) + 3 + (IF u.www THEN 4 ELSE 0) + Len(u.base)
               + Len(u.path) + Len(u.trail))

LabelStr(label) ==
    IF label.kind = "text" THEN Lit("x", Len(label.text))
    ELSE IF label.kind = "host"
         THEN Lit("x", (IF label.host.www THEN 4 ELSE 0) + Len(label.host.base))
    ELSE UrlStr(label.url)

\* f"__**{day_label}**__" with day_label = strftime("%a %b %d")
DayBlock == Cat(Cat(Lit("x", 7), Sp), Cat(Cat(Lit("x", 3), Sp), Lit("x", 6)))

\* f"**{time_str} â€” {e['title']}**"
TitleBlock(title) ==
    Cat(Cat(Cat(Lit("x", 7), Sp), Cat(Lit("x", 3), Sp)), Cat(title, Lit("x", 2)))

\* f"ðŸ“ {e['location']}"
LocationBlock(location) == Cat(Cat(Lit("x", 3), Sp), location)

RECURSIVE JoinLines(_)
JoinLines(lines) ==
    IF lines = <<>> THEN <<>>
    ELSE IF Len(lines) = 1 THEN lines[1]
    ELSE Cat(Cat(lines[1], NL1), JoinLines(Tail(lines)))

\* "**WSIB:** url", "**Canvas:** url", "**Meet:** url" (lines 375-390)
LinkLines(bk) ==
    (IF bk.wsib # <<>> THEN <<Cat(Cat(Lit("x", 9), Sp), UrlStr(bk.wsib[1].url))>> ELSE <<>>)
    \o (IF bk.canvas # <<>> THEN <<Cat(Cat(Lit("x", 11), Sp), UrlStr(bk.canvas[1].url))>> ELSE <<>>)
    \o (IF bk.meet # <<>> THEN <<Cat(Cat(Lit("x", 9), Sp), UrlStr(bk.meet[1].url))>> ELSE <<>>)

\* "- label: url" or "- url"
OtherLineStr(line) ==
    IF line.form = "label: url"
    THEN Cat(Cat(Cat(Lit("x", 1), Sp), Cat(LabelStr(line.label), Lit("x", 1))),
             Cat(Sp, UrlStr(line.url)))
    ELSE Cat(Cat(Lit("x", 1), Sp), UrlStr(line.url))

\* "**Other Links:**\n" + "\n".join(other_lines)
OtherBlock(lines) ==
    Cat(Cat(Cat(Lit("x", 7), Sp), Cat(Lit("x", 8), NL1)),
        JoinLines([k \in 1 .. Len(lines) |-> OtherLineStr(lines[k])]))

Opt(cond, block) == IF cond THEN <<block>> ELSE <<>>

\* the body of the loop of lines 347-406 for event e
EventBlocks(e, current_day) ==
    LET bk == classify_links(extract_links(e.desc))
        rendered == RenderOther(bk)
    IN  [raised |-> rendered.raised,
         blocks |->
            Opt((e.time \div 10) # current_day, DayBlock)
            \o <<TitleBlock(e.title)>>
            \o Opt(e.location # <<>>, LocationBlock(e.location))
            \o Opt(e.snippet # <<>>, e.snippet)
            \o Opt(LinkLines(bk) # <<>>, JoinLines(LinkLines(bk)))
            \o Opt(rendered.lines # <<>>, OtherBlock(rendered.lines))
            \o << <<>> >>]

RECURSIVE BuildBlocks(_, _)
BuildBlocks(evs, current_day) ==
    IF evs = <<>> THEN [raised |-> FALSE, blocks |-> <<>>]
    ELSE LET one == EventBlocks(Head(evs), current_day)
             rest == BuildBlocks(Tail(evs), Head(evs).time \div 10)
         IN  IF one.raised THEN [raised |-> TRUE, blocks |-> <<>>]
             ELSE [raised |-> rest.raised, blocks |-> one.blocks \o rest.blocks]

\* events.sort(key=lambda e: e["time"]): stable
RECURSIVE InsertByTime(_, _)
InsertByTime(sorted, e) ==
    IF sorted = <<>> THEN <<e>>
    ELSE IF Head(sorted).time <= e.time
         THEN <<Head(sorted)>> \o InsertByTime(Tail(sorted), e)
         ELSE <<e>> \o sorted

RECURSIVE SortByTime(_)
SortByTime(evs) ==
    IF evs = <<>> THEN <<>>
    ELSE InsertByTime(SortByTime(SubSeq(evs, 1, Len(evs) - 1)),
                      evs[Len(evs)])

\* words of the given lengths joined by single spaces
RECURSIVE JoinWords(_)
JoinWords(lens) ==
    IF lens = <<>> THEN <<>>
    ELSE IF Len(lens) = 1 THEN Lit("x", lens[1])
    ELSE Cat(Cat(Lit("x", lens[1]), Sp), JoinWords(Tail(lens)))

\* header + "\n\nNo events found for next Mondayâ€“Friday."
NoEventsMessage(header) ==
    Cat(Cat(header, NL2),
        JoinWords(<<2, 6, 5, 3, 4, 16>>))

\* main from the sort to the part labels (lines 337-415); None of a raised
\* TypeError is [raised |-> TRUE]
BuildMessages(evs, header) ==
    LET sorted == SortByTime(evs)
        built == BuildBlocks(sorted, -1)
    IN  IF sorted = <<>>
        THEN [raised |-> FALSE, messages |-> <<NoEventsMessage(header)>>]
        ELSE IF built.raised THEN [raised |-> TRUE, messages |-> <<>>]
        ELSE [raised |-> FALSE,
              messages |-> LabelParts(split_into_messages(built.blocks, header), header)]

-----------------------------------------------------------------------------
(* State file and webhook                                                  *)

\* an id string that is blank (str(x).strip() is empty); Discord returns none
BlankId == 0

\* load_previous_message_ids that skips the first stored id
load_previous_message_ids_skips_first(file) ==
    IF ~file.exists \/ file.message_ids = <<>> THEN <<>>
    ELSE SelectSeq(Tail(file.message_ids), LAMBDA x : x # BlankId)

load_previous_message_ids(file) ==
    IF ~file.exists THEN <<>>
    ELSE SelectSeq(file.message_ids, LAMBDA x : x # BlankId)

\* save_message_ids that keeps what the file held
save_message_ids_merging(file, ids) ==
    [exists |-> TRUE, message_ids |-> file.message_ids \o ids]

\* save_message_ids(ids): the file is rewritten whole
save_message_ids(file, ids) == [exists |-> TRUE, message_ids |-> ids]

\* main saving its ids after every post
FileAfterPostEager(file, ids, last) == save_message_ids(file, ids)

\* the state file after a post of main: written once the last post is done
\* (lines 340-341 and 417-422)
FileAfterPost(file, ids, last) ==
    IF last THEN save_message_ids(file, ids) ELSE file

\* main going on to the feed without the delete loop
AfterLoadGoesToFetch(ids) == "fetch"

\* where main goes after load_previous_message_ids (lines 295-299)
AfterLoad(ids) == IF ids = <<>> THEN "fetch" ELSE "delete"

\* status codes of DELETE {webhook}/messages/{id}: 204 deletes a message that
\* is there, 404 answers for one that is not, 500 stands for every failure
DeleteStatuses(mid) == (IF mid \in channel THEN {204} ELSE {404}) \cup {500}

-----------------------------------------------------------------------------
(* Feeds: what fetch_ics and the window filter of main hand to the sort    *)

Event(time, title, location, snippet, desc) ==
    [time |-> time, title |-> title, location |-> location,
     snippet |-> snippet, desc |-> desc]

Feeds ==
    { <<>>,
      << Event(10, Lit("x", 12), Lit("x", 8), <<>>, <<>>) >>,
      << Event(10, Lit("x", 12), <<>>, Lit("x", 30), <<Bare(USiteDot)>>) >>,
      << Event(21, Lit("x", 898), <<>>, Lit("x", 4), <<Anchor(UMeet, TextLabel("Join"))>>),
         Event(10, Lit("x", 898), <<>>, <<>>, <<>>),
         Event(11, Lit("x", 898), <<>>, <<>>, <<>>) >>,
      << Event(10, Lit("x", 12), <<>>, <<>>,
               << Anchor(UDocs, TextLabel("WSIB Doc")), Anchor(UMeet, TextLabel("Join")),
                  Anchor(UCanvas1, TextLabel("")), Bare(UCanvas2), Bare(USiteDot) >>) >> }

MaxRuns == 3

-----------------------------------------------------------------------------
(* The lifecycle of main                                                   *)

LfInit ==
    /\ pc = "idle"
    /\ state_file = NoFile
    /\ channel = {}
    /\ next_id = 1
    /\ old_ids = <<>>
    /\ di = 0
    /\ events = <<>>
    /\ messages = <<>>
    /\ new_ids = <<>>
    /\ calls = <<>>
    /\ cause = ""
    /\ start_file = NoFile
    /\ runs = 0
    /\ prev_aborted = FALSE
    /\ any_aborted = FALSE
    /\ PgIdle
    /\ LkIdle

Abort(why) ==
    /\ pc' = "aborted"
    /\ cause' = why
    /\ any_aborted' = TRUE

\* a run starts: main, line 295
Start ==
    /\ pc \in {"idle", "done", "aborted"}
    /\ runs < MaxRuns
    /\ runs' = runs + 1
    /\ old_ids' = load_previous_message_ids(state_file)
    /\ pc' = AfterLoad(load_previous_message_ids(state_file))
    /\ di' = 0
    /\ events' = <<>>
    /\ messages' = <<>>
    /\ new_ids' = <<>>
    /\ calls' = <<>>
    /\ cause' = ""
    /\ start_file' = state_file
    /\ prev_aborted' = any_aborted
    /\ UNCHANGED <<state_file, channel, next_id, any_aborted, pgVars, lkVars>>

\* delete_discord_message(mid) answered 204 or 404 (lines 296-297, 162-166)
DeleteOk ==
    /\ pc = "delete"
    /\ di < Len(old_ids)
    /\ \E status \in DeleteStatuses(old_ids[di + 1]) \cap {204, 404} :
          channel' = IF status = 204 THEN channel \ {old_ids[di + 1]} ELSE channel
    /\ calls' = Append(calls, [op |-> "delete", id |-> old_ids[di + 1]])
    /\ di' = di + 1
    /\ pc' = IF di + 1 = Len(old_ids) THEN "fetch" ELSE "delete"
    /\ UNCHANGED <<state_file, next_id, old_ids, events, messages, new_ids, cause,
                   start_file, runs, prev_aborted, any_aborted, pgVars, lkVars>>

\* delete_discord_message(mid) raising on another status (line 166)
DeleteFails ==
    /\ pc = "delete"
    /\ di < Len(old_ids)
    /\ \E status \in DeleteStatuses(old_ids[di + 1]) \ {204, 404} : Abort("delete")
    /\ calls' = Append(calls, [op |-> "delete", id |-> old_ids[di + 1]])
    /\ UNCHANGED <<state_file, channel, next_id, old_ids, di, events, messages, new_ids,
                   start_file, runs, prev_aborted, pgVars, lkVars>>

\* fetch_ics or Calendar.from_ical raising (lines 299-300)
FetchFails ==
    /\ pc = "fetch"
    /\ Abort("fetch")
    /\ UNCHANGED <<state_file, channel, next_id, old_ids, di, events, messages, new_ids,
                   calls, start_file, runs, prev_aborted, pgVars, lkVars>>

\* the feed is read and the messages are built (lines 299-415)
Build ==
    /\ pc = "fetch"
    /\ \E feed \in Feeds :
          /\ ~BuildMessages(feed, MainHeader).raised
          /\ events' = SortByTime(feed)
          /\ messages' = BuildMessages(feed, MainHeader).messages
    /\ pc' = "post"
    /\ UNCHANGED <<state_file, channel, next_id, old_ids, di, new_ids, calls, cause,
                   start_file, runs, prev_aborted, any_aborted, pgVars, lkVars>>

\* the feed is read and building the blocks raises TypeError (line 397)
BuildRaises ==
    /\ pc = "fetch"
    /\ \E feed \in Feeds :
          /\ BuildMessages(feed, MainHeader).raised
          /\ events' = SortByTime(feed)
    /\ Abort("render")
    /\ UNCHANGED <<state_file, channel, next_id, old_ids, di, messages, new_ids,
                   calls, start_file, runs, prev_aborted, pgVars, lkVars>>

\* post_to_discord_return_id answered below 300, and save_message_ids after
\* the last one (lines 340-341, 417-422)
PostOk ==
    /\ pc = "post"
    /\ Len(new_ids) < Len(messages)
    /\ LET ids == Append(new_ids, next_id)
           last == Len(ids) = Len(messages)
       IN  /\ new_ids' = ids
           /\ state_file' = FileAfterPost(state_file, ids, last)
           /\ pc' = IF last THEN "done" ELSE "post"
    /\ channel' = channel \cup {next_id}
    /\ next_id' = next_id + 1
    /\ calls' = Append(calls, [op |-> "post", id |-> next_id])
    /\ UNCHANGED <<old_ids, di, events, messages, cause, start_file, runs, prev_aborted,
                   any_aborted, pgVars, lkVars>>

\* post_to_discord_return_id raising on a status >= 300 (line 157)
PostFails ==
    /\ pc = "post"
    /\ Len(new_ids) < Len(messages)
    /\ Abort("post")
    /\ calls' = Append(calls, [op |-> "post", id |-> BlankId])
    /\ UNCHANGED <<state_file, channel, next_id, old_ids, di, events, messages, new_ids,
                   start_file, runs, prev_aborted, pgVars, lkVars>>

LfNext == Start \/ DeleteOk \/ DeleteFails \/ FetchFails \/ Build \/ BuildRaises
            \/ PostOk \/ PostFails

Spec == LfInit /\ [][LfNext]_vars

-----------------------------------------------------------------------------
(* Properties of the lifecycle                                             *)

\* the ids the state file held when the run started
PriorIds == { x \in { start_file.message_ids[i] : i \in DOMAIN start_file.message_ids } :
                x # BlankId }

CallsOf(op, id) == { i \in DOMAIN calls : calls[i].op = op /\ calls[i].id = id }

PostsDone == { i \in DOMAIN calls : calls[i].op = "post" /\ calls[i].id # BlankId }

\* C1: when a run has completed, the state file holds as many ids as the run
\* posted messages, and delete was called exactly once for every id the
\* state file held when the run started.
C1_StateAfterSync ==
    pc = "done" =>
        /\ state_file.exists
        /\ Len(state_file.message_ids) = Cardinality(PostsDone)
        /\ Len(state_file.message_ids) = Len(messages)
        /\ \A id \in PriorIds : Cardinality(CallsOf("delete", id)) = 1

\* a completed run that found two or more ids and posted two or more messages
C1_Witness ==
    /\ pc = "done"
    /\ Cardinality(PriorIds) >= 2
    /\ Cardinality(PostsDone) >= 2

\* C2: in every run the deletes come before the posts: when a post is
\* called, delete has been called for every id loaded from the state file,
\* and no delete follows a post.
C2_DeletesBeforePosts ==
    \A j \in DOMAIN calls :
        calls[j].op = "post" =>
            /\ \A id \in PriorIds : \E i \in 1 .. (j - 1) :
                    calls[i].op = "delete" /\ calls[i].id = id
            /\ \A i \in (j + 1) .. Len(calls) : calls[i].op # "delete"

\* a run that deleted two ids and then posted
C2_Witness ==
    /\ Cardinality(PriorIds) >= 2
    /\ \E j \in DOMAIN calls : calls[j].op = "post"

\* C3: a run that has not reached its final save (it is still going, or it
\* aborted on a failed delete, fetch or post) leaves the state file exactly
\* as it was when the run started.
C3_NoPartialState ==
    pc \in {"delete", "fetch", "post", "aborted"} => state_file = start_file

\* a run aborted by a failed post after deletes and a post that succeeded
C3_Witness ==
    /\ pc = "aborted"
    /\ cause = "post"
    /\ start_file.exists
    /\ di >= 1
    /\ Len(new_ids) >= 1

\* C9: as long as every run has completed, after each run the webhook's
\* messages present in the channel are exactly the ids of the state file.
C9_ChannelIsState ==
    (~any_aborted /\ pc \in {"idle", "done"}) =>
        channel = { state_file.message_ids[i] : i \in DOMAIN state_file.message_ids }

\* a second completed run that replaced the messages of the first
C9_Witness ==
    /\ ~any_aborted
    /\ pc = "done"
    /\ runs >= 2
    /\ PriorIds # {}
    /\ Cardinality(channel) >= 2

\* C10: a run that follows an aborted run and whose deletes are all answered
\* 204 or 404, whose fetch succeeds and whose posts all succeed runs to
\* completion: it aborts only on a failed webhook or feed call.
C10_RunAfterAbortCompletes ==
    (prev_aborted /\ pc = "aborted") => cause \in {"delete", "fetch", "post"}

-----------------------------------------------------------------------------
(* Properties of the link pipeline                                         *)

Range(f) == { f[i] : i \in DOMAIN f }

\* the urls of the description in scan order: anchors first, then naked URLs
RECURSIVE UrlsOfKind(_, _)
UrlsOfKind(items, kind) ==
    IF items = <<>> THEN <<>>
    ELSE IF Head(items).kind = kind
         THEN <<normalize_url(Head(items).url)>> \o UrlsOfKind(Tail(items), kind)
         ELSE UrlsOfKind(Tail(items), kind)

ScanOrder(desc) == UrlsOfKind(desc, "a") \o UrlsOfKind(desc, "bare")

FirstPos(seq, x) == CHOOSE i \in 1 .. Len(seq) :
                        seq[i] = x /\ \A j \in 1 .. (i - 1) : seq[j] # x

\* C8: the urls extract_links returns are pairwise distinct, stand in the
\* order of their first occurrence (anchors scanned before naked URLs), and
\* none has a scheme of BLOCKED_SCHEMES or a host of BLOCKED_LINK_DOMAINS.
C8_ExtractDistinctOrderedUnblocked ==
    lk_pc # "in" =>
        LET scan == ScanOrder(lk_desc)
        IN  /\ \A i, j \in 1 .. Len(lk_links) :
                  i # j => lk_links[i].url # lk_links[j].url
            /\ \A i \in 1 .. Len(lk_links) :
                  /\ lk_links[i].url \in Range(scan)
                  /\ lk_links[i].url.scheme \notin BLOCKED_SCHEMES
                  /\ lk_links[i].url.base \notin BLOCKED_LINK_DOMAINS
            /\ \A i, j \in 1 .. Len(lk_links) :
                  i < j => FirstPos(scan, lk_links[i].url)
                             < FirstPos(scan, lk_links[j].url)

\* a description with a repeated url and a denylisted one, a naked URL
\* standing before the anchor that is returned first
C8_Witness ==
    /\ lk_pc = "extracted"
    /\ Len(lk_links) >= 2
    /\ \E i, j \in 1 .. Len(lk_desc) :
          /\ i < j
          /\ normalize_url(lk_desc[i].url) = normalize_url(lk_desc[j].url)
          /\ ~is_blocked_url(normalize_url(lk_desc[i].url))
    /\ \E i \in 1 .. Len(lk_desc) : lk_desc[i].url \in {UHelp, UTel}
    /\ \E i, j \in 1 .. Len(lk_desc) :
          /\ i < j /\ lk_desc[i].kind = "bare" /\ lk_desc[j].kind = "a"
          /\ lk_links[1].url = lk_desc[j].url
          /\ lk_links[2].url = lk_desc[i].url

RoleUrls(bk) == { l.url : l \in Range(bk.wsib) \cup Range(bk.canvas) \cup Range(bk.meet) }

\* the links of `links` a role claims, by the tests of classify_links
RoleOf(link) ==
    LET host == ReplaceWww(Lower(Netloc(link.url)))
    IN  IF host.base = "canvas.usuhs.edu" THEN "canvas"
        ELSE IF host.base = "meet.google.com" THEN "meet"
        ELSE IF host.base = "docs.google.com" /\ link.label.kind = "text"
                /\ link.label.text \in WsibTexts THEN "wsib"
        ELSE "other"

\* the role slot holds the first link of its role and every later one is in other
FirstWins(links, slot, role, other) ==
    LET mine == SelectSeq(links, LAMBDA l : RoleOf(l) = role)
    IN  /\ Len(slot) <= 1
        /\ (mine = <<>>) <=> (slot = <<>>)
        /\ mine # <<>> =>
              /\ slot[1].url = mine[1].url
              /\ \A i \in 2 .. Len(mine) : mine[i].url \in { l.url : l \in Range(other) }

\* C7: the bucket classify_links returns holds at most one link in each of
\* wsib, canvas and meet, the first of its role; a later link of a filled role
\* is in other; and no url of a named role is in other.
C7_BucketRolesDisjointFromOther ==
    lk_pc \in {"classified", "rendered"} =>
        /\ FirstWins(lk_links, lk_bucket.wsib, "wsib", lk_bucket.other)
        /\ FirstWins(lk_links, lk_bucket.canvas, "canvas", lk_bucket.other)
        /\ FirstWins(lk_links, lk_bucket.meet, "meet", lk_bucket.other)
        /\ \A l \in Range(lk_bucket.other) : l.url \notin RoleUrls(lk_bucket)
        /\ Len(lk_bucket.other) + Cardinality(RoleUrls(lk_bucket)) = Len(lk_links)

\* two links of one role: the first holds the role, the second is in other
C7_Witness ==
    /\ lk_pc = "classified"
    /\ lk_bucket.canvas # <<>>
    /\ lk_bucket.canvas[1].url = UCanvas1
    /\ \E l \in Range(lk_bucket.other) : l.url = UCanvas2
    /\ lk_bucket.wsib # <<>>
    /\ \E l \in Range(lk_bucket.other) : l.url = USite

\* the label says no more than the url: it is the url's short domain (up to
\* case) or the url itself
LabelRedundant(label, url) ==
    \/ label.kind = "host" /\ Lower(label.host) = ReplaceWww(Lower(Netloc(url)))
    \/ label.kind = "url" /\ label.url = url

\* C6: a line of the "Other Links" section never shows a label beside a url
\* it is redundant with: a link whose label is the short domain of its url
\* (every naked URL) or the url itself is rendered as the bare url.
C6_RedundantLabelRenderedBare ==
    (lk_pc = "rendered" /\ ~lk_render.raised) =>
        \A k \in 1 .. Len(lk_render.lines) :
            LabelRedundant(lk_render.lines[k].label, lk_render.lines[k].url)
                => lk_render.lines[k].form = "url"

-----------------------------------------------------------------------------
(* Inputs of the paginator                                                 *)

MaxBlocks == 3

Headers == {MainHeader, Lit("h", 1)}

\* Blocks as main builds them: no leading or trailing whitespace, possibly
\* empty (the event separator), possibly holding inner newlines.
BlockPool ==
    { <<>>,                                        \* "" (blocks.append(""))
      Lit("a", 10),                                \* a short line
      << <<"b", 5>>, <<"n", 1>>, <<"b", 5>> >>,   \* two joined link lines
      Lit("c", 898),                               \* two of them fit, three do not
      Lit("d", 1820),                              \* <= SAFE_LIMIT, not with the header
      Lit("e", 1900) }                             \* alone over SAFE_LIMIT

PgInit ==
    /\ pg_pc = "in"
    /\ pg_blocks \in SeqsUpTo(BlockPool, MaxBlocks)
    /\ pg_header \in Headers
    /\ pg_messages = <<>>
    /\ pg_final = <<>>
    /\ LkIdle
    /\ LfIdle

PgSplit ==
    /\ pg_pc = "in"
    /\ pg_messages' = split_into_messages(pg_blocks, pg_header)
    /\ pg_pc' = "split"
    /\ UNCHANGED <<pg_blocks, pg_header, pg_final, lkVars, lfVars>>

PgLabel ==
    /\ pg_pc = "split"
    /\ pg_final' = LabelParts(pg_messages, pg_header)
    /\ pg_pc' = "done"
    /\ UNCHANGED <<pg_blocks, pg_header, pg_messages, lkVars, lfVars>>

PgNext == PgSplit \/ PgLabel

SpecPage == PgInit /\ [][PgNext]_vars

-----------------------------------------------------------------------------
(* Properties of the paginator                                             *)

\* b + "\n" for the blocks i..j, in order
RECURSIVE JoinBlocks(_, _, _)
JoinBlocks(blocks, i, j) ==
    IF i > j THEN <<>>
    ELSE Cat(Cat(blocks[i], NL1), JoinBlocks(blocks, i + 1, j))

\* the message that holds exactly the blocks i..j under header hs
Page(blocks, i, j, hs) == RStrip(Cat(Cat(hs, NL2), JoinBlocks(blocks, i, j)))

\* messages k.. hold, whole and in order, exactly the blocks i..
RECURSIVE Covers(_, _, _, _)
Covers(msgs, blocks, k, i) ==
    IF k > Len(msgs) THEN i = Len(blocks) + 1
    ELSE \E j \in (i - 1) .. Len(blocks) :
            /\ msgs[k] = Page(blocks, i, j, Strip(pg_header))
            /\ Covers(msgs, blocks, k + 1, j + 1)

LabelLen(k, total) == IF total > 1 THEN StrLen(PartLabel(k, total)) ELSE 0

\* message k holds one block only, which does not fit beside the header
LoneOversized(k) ==
    \E i \in 1 .. Len(pg_blocks) :
        /\ pg_messages[k] = Page(pg_blocks, i, i, Strip(pg_header))
        /\ StrLen(Strip(pg_header)) + 2 + StrLen(pg_blocks[i]) + 1 > SAFE_LIMIT

\* C4 (as stated): every message the paginator produces (split_into_messages,
\* then the part-label rewrite) is at most SAFE_LIMIT long, unless some
\* single input block alone is longer than SAFE_LIMIT.
C4_AsStated ==
    pg_pc = "done" =>
        \/ \E i \in 1 .. Len(pg_blocks) : StrLen(pg_blocks[i]) > SAFE_LIMIT
        \/ \A k \in 1 .. Len(pg_final) : StrLen(pg_final[k]) <= SAFE_LIMIT

\* C4 (amended): a message of split_into_messages is at most SAFE_LIMIT long
\* unless it holds a single block b with len(header) + 2 + len(b) + 1 >
\* SAFE_LIMIT; the part-label rewrite adds exactly the length of the label
\* " *(Part i/total)*" to each message when there is more than one.
C4_Amended ==
    pg_pc = "done" =>
        /\ Len(pg_final) = Len(pg_messages)
        /\ \A k \in 1 .. Len(pg_messages) :
              /\ StrLen(pg_messages[k]) <= SAFE_LIMIT \/ LoneOversized(k)
              /\ StrLen(pg_final[k])
                   = StrLen(pg_messages[k]) + LabelLen(k, Len(pg_messages))

\* a labelled message over SAFE_LIMIT although every block fits beside the header
C4_Witness ==
    /\ pg_pc = "done"
    /\ Len(pg_final) > 1
    /\ \A i \in 1 .. Len(pg_blocks) :
          StrLen(Strip(pg_header)) + 2 + StrLen(pg_blocks[i]) + 1 <= SAFE_LIMIT
    /\ \E k \in 1 .. Len(pg_final) :
          StrLen(pg_final[k]) > SAFE_LIMIT /\ StrLen(pg_messages[k]) <= SAFE_LIMIT

\* C5: split_into_messages keeps every block whole and the blocks in order:
\* the messages are, in order, the header followed by consecutive runs of
\* the input blocks (each followed by a newline, the message right-trimmed),
\* the runs covering every block exactly once.
C5_BlocksWholeInOrder ==
    pg_pc # "in" => Covers(pg_messages, pg_blocks, 1, 1)

\* three non-empty blocks spread over two messages, one holding two of them
C5_Witness ==
    /\ pg_pc = "split"
    /\ Len(pg_blocks) >= 3
    /\ \A i \in 1 .. Len(pg_blocks) : pg_blocks[i] # <<>>
    /\ Len(pg_messages) = 2

====
